---- MODULE Spec2Model ----
(***************************************************************************)
(* curl_to_padded_string: get_actual_payload_size and load_url             *)
(* (src/include/curl_to_padded_string.h), driven by a caller that invokes  *)
(* them one after the other as src/test/test.cpp does.                     *)
(*                                                                         *)
(* The program's own steps are Call, EasyInit, SetOpts, Cleanup and        *)
(* Return.  curl_easy_perform is the transport: while pc = "perform" it    *)
(* receives redirect responses, hands body chunks to the registered write  *)
(* callback, lets time pass, fails or completes, obeying the options the   *)
(* program has set on the handle.                                          *)
(***************************************************************************)
EXTENDS Integers, Sequences, FiniteSets, TLC

\* ---------------------------------------------------------------- bounds
MaxChunks == 2          \* chunks the transport hands to the callback per call
MaxRedirChain == 11     \* redirect responses a server chain presents per call
TickMs == 7500          \* milliseconds one TimePasses step advances the clock
MaxTicks == 2           \* the clock of a transfer saturates after this many

Bytes == {1, 2}
\* (size, nmemb) pairs a write callback is called with; the transport hands
\* over received bytes only, never an empty chunk
Shapes == {<<1, 1>>, <<1, 2>>, <<2, 1>>}

\* ------------------------------------------------------ program constants
MAXREDIRS == 10
TIMEOUT_MS == 15000

VARIABLES
    pc,            \* position of the caller / the running function
    fn,            \* "none" | "probe" (get_actual_payload_size) | "load" (load_url)
    curl,          \* CURL* curl: "none" | "null" | "live" | "cleaned"
    opts,          \* options set on the handle
    total_bytes,   \* size_t total_bytes of get_actual_payload_size
    builder,       \* simdjson::padded_string_builder builder of load_url
    res,           \* CURLcode res
    ret,           \* the value the last call returned
    hops,          \* the transport's count of redirects followed
    elapsed,       \* ms since the transfer started
    phase,         \* "connect" | "head" | "body" (final response) | "rbody" (3xx body)
    seen,          \* history: redirect responses received in this call
    delivered,     \* history: chunks handed to the callback in this call
    appendFailed,  \* history: builder.append returned false in this call
    aborted,       \* history: a callback's return value ended the transfer
    performs,      \* history: curl_easy_perform calls made in this call
    cleanups,      \* history: curl_easy_cleanup calls made in this call
    prev,          \* history: the call before this one, when it succeeded
    libcurl        \* the libcurl release the program is linked with

vars == <<pc, fn, curl, opts, total_bytes, builder, res, ret, hops, elapsed,
          phase, seen, delivered, appendFailed, aborted, performs, cleanups, prev, libcurl>>

\* ------------------------------------------------------------- helpers
RECURSIVE Flatten(_)
Flatten(chunks) ==
    IF chunks = <<>> THEN <<>> ELSE Head(chunks) \o Flatten(Tail(chunks))

RECURSIVE TotalLen(_)
TotalLen(chunks) ==
    IF chunks = <<>> THEN 0 ELSE Len(Head(chunks)) + TotalLen(Tail(chunks))

SeqsOfLen(n) == [1..n -> Bytes]

\* ------------------------------------------------------ transport library
\* the libcurl releases the program may be linked with: message texts and
\* option defaults differ between them
Versions == {"7.88.1", "8.19.0"}

\* the failure codes (CURLcode, other than CURLE_OK) that have a name in
\* either release
CURLcodes ==
    {"CURLE_UNSUPPORTED_PROTOCOL", "CURLE_FAILED_INIT",
     "CURLE_URL_MALFORMAT", "CURLE_NOT_BUILT_IN",
     "CURLE_COULDNT_RESOLVE_PROXY", "CURLE_COULDNT_RESOLVE_HOST",
     "CURLE_COULDNT_CONNECT", "CURLE_WEIRD_SERVER_REPLY",
     "CURLE_REMOTE_ACCESS_DENIED", "CURLE_FTP_ACCEPT_FAILED",
     "CURLE_FTP_WEIRD_PASS_REPLY", "CURLE_FTP_ACCEPT_TIMEOUT",
     "CURLE_FTP_WEIRD_PASV_REPLY", "CURLE_FTP_WEIRD_227_FORMAT",
     "CURLE_FTP_CANT_GET_HOST", "CURLE_HTTP2", "CURLE_FTP_COULDNT_SET_TYPE",
     "CURLE_PARTIAL_FILE", "CURLE_FTP_COULDNT_RETR_FILE",
     "CURLE_QUOTE_ERROR", "CURLE_HTTP_RETURNED_ERROR", "CURLE_WRITE_ERROR",
     "CURLE_UPLOAD_FAILED", "CURLE_READ_ERROR", "CURLE_OUT_OF_MEMORY",
     "CURLE_OPERATION_TIMEDOUT", "CURLE_FTP_PORT_FAILED",
     "CURLE_FTP_COULDNT_USE_REST", "CURLE_RANGE_ERROR",
     "CURLE_HTTP_POST_ERROR", "CURLE_SSL_CONNECT_ERROR",
     "CURLE_BAD_DOWNLOAD_RESUME", "CURLE_FILE_COULDNT_READ_FILE",
     "CURLE_LDAP_CANNOT_BIND", "CURLE_LDAP_SEARCH_FAILED",
     "CURLE_FUNCTION_NOT_FOUND", "CURLE_ABORTED_BY_CALLBACK",
     "CURLE_BAD_FUNCTION_ARGUMENT", "CURLE_INTERFACE_FAILED",
     "CURLE_TOO_MANY_REDIRECTS", "CURLE_UNKNOWN_OPTION",
     "CURLE_SETOPT_OPTION_SYNTAX", "CURLE_GOT_NOTHING",
     "CURLE_SSL_ENGINE_NOTFOUND", "CURLE_SSL_ENGINE_SETFAILED",
     "CURLE_SEND_ERROR", "CURLE_RECV_ERROR", "CURLE_SSL_CERTPROBLEM",
     "CURLE_SSL_CIPHER", "CURLE_PEER_FAILED_VERIFICATION",
     "CURLE_BAD_CONTENT_ENCODING", "CURLE_FILESIZE_EXCEEDED",
     "CURLE_USE_SSL_FAILED", "CURLE_SEND_FAIL_REWIND",
     "CURLE_SSL_ENGINE_INITFAILED", "CURLE_LOGIN_DENIED",
     "CURLE_TFTP_NOTFOUND", "CURLE_TFTP_PERM", "CURLE_REMOTE_DISK_FULL",
     "CURLE_TFTP_ILLEGAL", "CURLE_TFTP_UNKNOWNID",
     "CURLE_REMOTE_FILE_EXISTS", "CURLE_TFTP_NOSUCHUSER",
     "CURLE_SSL_CACERT_BADFILE", "CURLE_REMOTE_FILE_NOT_FOUND", "CURLE_SSH",
     "CURLE_SSL_SHUTDOWN_FAILED", "CURLE_AGAIN", "CURLE_SSL_CRL_BADFILE",
     "CURLE_SSL_ISSUER_ERROR", "CURLE_FTP_PRET_FAILED",
     "CURLE_RTSP_CSEQ_ERROR", "CURLE_RTSP_SESSION_ERROR",
     "CURLE_FTP_BAD_FILE_LIST", "CURLE_CHUNK_FAILED",
     "CURLE_NO_CONNECTION_AVAILABLE", "CURLE_SSL_PINNEDPUBKEYNOTMATCH",
     "CURLE_SSL_INVALIDCERTSTATUS", "CURLE_HTTP2_STREAM",
     "CURLE_RECURSIVE_API_CALL", "CURLE_AUTH_ERROR", "CURLE_HTTP3",
     "CURLE_QUIC_CONNECT_ERROR", "CURLE_PROXY", "CURLE_SSL_CLIENTCERT",
     "CURLE_UNRECOVERABLE_POLL", "CURLE_TOO_LARGE", "CURLE_ECH_REQUIRED"}

\* the codes that are values of the release's CURLcode: CURLE_TOO_LARGE
\* and CURLE_ECH_REQUIRED came with 8.6.0 and 8.8.0, CURLE_HTTP_POST_ERROR
\* and CURLE_FUNCTION_NOT_FOUND are obsolete in 8.x
OnlyOld == {"CURLE_HTTP_POST_ERROR", "CURLE_FUNCTION_NOT_FOUND"}
OnlyNew == {"CURLE_TOO_LARGE", "CURLE_ECH_REQUIRED"}
Named == CURLcodes \ (IF libcurl = "7.88.1" THEN OnlyNew ELSE OnlyOld)

\* failures that need no body to have come and end the transfer before one
\* does: the URL, the names of proxy and host, the connect, a file:// URL
\* that cannot be read, a connection closed without any answer
PreBodyErrors ==
    {"CURLE_URL_MALFORMAT", "CURLE_COULDNT_RESOLVE_PROXY",
     "CURLE_COULDNT_RESOLVE_HOST", "CURLE_COULDNT_CONNECT",
     "CURLE_FILE_COULDNT_READ_FILE", "CURLE_GOT_NOTHING"}

\* the codes curl_easy_perform returns of its own: the URL is the caller's,
\* so any scheme the library was built with and any of its failures, the
\* write error and the timeout included (a decoder that cannot write on, a
\* protocol's own response timeout); the redirect limit is ServerRedirect's
NetErrors == CURLcodes \ {"CURLE_TOO_MANY_REDIRECTS"}

\* curl_easy_strerror(code): the text of each release; a code without a
\* name in the release is "Unknown error"
curl_easy_strerror(code) ==
    CASE code = "CURLE_OK" -> "No error"
      [] code = "CURLE_UNSUPPORTED_PROTOCOL" -> "Unsupported protocol"
      [] code = "CURLE_FAILED_INIT" -> "Failed initialization"
      [] code = "CURLE_URL_MALFORMAT" -> "URL using bad/illegal format or missing URL"
      [] code = "CURLE_NOT_BUILT_IN" ->
            "A requested feature, protocol or option was not found built-in in this libcurl due to a build-time decision."
      [] code = "CURLE_COULDNT_RESOLVE_PROXY" ->
            IF libcurl = "7.88.1" THEN "Couldn't resolve proxy name"
            ELSE "Could not resolve proxy name"
      [] code = "CURLE_COULDNT_RESOLVE_HOST" ->
            IF libcurl = "7.88.1" THEN "Couldn't resolve host name"
            ELSE "Could not resolve hostname"
      [] code = "CURLE_COULDNT_CONNECT" ->
            IF libcurl = "7.88.1" THEN "Couldn't connect to server"
            ELSE "Could not connect to server"
      [] code = "CURLE_WEIRD_SERVER_REPLY" -> "Weird server reply"
      [] code = "CURLE_REMOTE_ACCESS_DENIED" -> "Access denied to remote resource"
      [] code = "CURLE_FTP_ACCEPT_FAILED" -> "FTP: The server failed to connect to data port"
      [] code = "CURLE_FTP_WEIRD_PASS_REPLY" -> "FTP: unknown PASS reply"
      [] code = "CURLE_FTP_ACCEPT_TIMEOUT" -> "FTP: Accepting server connect has timed out"
      [] code = "CURLE_FTP_WEIRD_PASV_REPLY" -> "FTP: unknown PASV reply"
      [] code = "CURLE_FTP_WEIRD_227_FORMAT" -> "FTP: unknown 227 response format"
      [] code = "CURLE_FTP_CANT_GET_HOST" ->
            IF libcurl = "7.88.1" THEN "FTP: can't figure out the host in the PASV response"
            ELSE "FTP: cannot figure out the host in the PASV response"
      [] code = "CURLE_HTTP2" -> "Error in the HTTP2 framing layer"
      [] code = "CURLE_FTP_COULDNT_SET_TYPE" ->
            IF libcurl = "7.88.1" THEN "FTP: couldn't set file type"
            ELSE "FTP: could not set file type"
      [] code = "CURLE_PARTIAL_FILE" -> "Transferred a partial file"
      [] code = "CURLE_FTP_COULDNT_RETR_FILE" ->
            IF libcurl = "7.88.1" THEN "FTP: couldn't retrieve (RETR failed) the specified file"
            ELSE "FTP: could not retrieve (RETR failed) the specified file"
      [] code = "CURLE_QUOTE_ERROR" -> "Quote command returned error"
      [] code = "CURLE_HTTP_RETURNED_ERROR" -> "HTTP response code said error"
      [] code = "CURLE_WRITE_ERROR" -> "Failed writing received data to disk/application"
      [] code = "CURLE_UPLOAD_FAILED" -> "Upload failed (at start/before it took off)"
      [] code = "CURLE_READ_ERROR" -> "Failed to open/read local data from file/application"
      [] code = "CURLE_OUT_OF_MEMORY" -> "Out of memory"
      [] code = "CURLE_OPERATION_TIMEDOUT" -> "Timeout was reached"
      [] code = "CURLE_FTP_PORT_FAILED" -> "FTP: command PORT failed"
      [] code = "CURLE_FTP_COULDNT_USE_REST" -> "FTP: command REST failed"
      [] code = "CURLE_RANGE_ERROR" -> "Requested range was not delivered by the server"
      [] code = "CURLE_HTTP_POST_ERROR" ->
            IF libcurl = "7.88.1" THEN "Internal problem setting up the POST"
            ELSE "Unknown error"
      [] code = "CURLE_SSL_CONNECT_ERROR" -> "SSL connect error"
      [] code = "CURLE_BAD_DOWNLOAD_RESUME" ->
            IF libcurl = "7.88.1" THEN "Couldn't resume download"
            ELSE "Could not resume download"
      [] code = "CURLE_FILE_COULDNT_READ_FILE" ->
            IF libcurl = "7.88.1" THEN "Couldn't read a file:// file"
            ELSE "Could not read a file:// file"
      [] code = "CURLE_LDAP_CANNOT_BIND" -> "LDAP: cannot bind"
      [] code = "CURLE_LDAP_SEARCH_FAILED" -> "LDAP: search failed"
      [] code = "CURLE_FUNCTION_NOT_FOUND" ->
            IF libcurl = "7.88.1" THEN "A required function in the library was not found"
            ELSE "Unknown error"
      [] code = "CURLE_ABORTED_BY_CALLBACK" -> "Operation was aborted by an application callback"
      [] code = "CURLE_BAD_FUNCTION_ARGUMENT" -> "A libcurl function was given a bad argument"
      [] code = "CURLE_INTERFACE_FAILED" -> "Failed binding local connection end"
      [] code = "CURLE_TOO_MANY_REDIRECTS" -> "Number of redirects hit maximum amount"
      [] code = "CURLE_UNKNOWN_OPTION" -> "An unknown option was passed in to libcurl"
      [] code = "CURLE_SETOPT_OPTION_SYNTAX" -> "Malformed option provided in a setopt"
      [] code = "CURLE_GOT_NOTHING" -> "Server returned nothing (no headers, no data)"
      [] code = "CURLE_SSL_ENGINE_NOTFOUND" -> "SSL crypto engine not found"
      [] code = "CURLE_SSL_ENGINE_SETFAILED" -> "Can not set SSL crypto engine as default"
      [] code = "CURLE_SEND_ERROR" -> "Failed sending data to the peer"
      [] code = "CURLE_RECV_ERROR" -> "Failure when receiving data from the peer"
      [] code = "CURLE_SSL_CERTPROBLEM" -> "Problem with the local SSL certificate"
      [] code = "CURLE_SSL_CIPHER" ->
            IF libcurl = "7.88.1" THEN "Couldn't use specified SSL cipher"
            ELSE "Could not use specified SSL cipher"
      [] code = "CURLE_PEER_FAILED_VERIFICATION" ->
            "SSL peer certificate or SSH remote key was not OK"
      [] code = "CURLE_BAD_CONTENT_ENCODING" ->
            "Unrecognized or bad HTTP Content or Transfer-Encoding"
      [] code = "CURLE_FILESIZE_EXCEEDED" -> "Maximum file size exceeded"
      [] code = "CURLE_USE_SSL_FAILED" -> "Requested SSL level failed"
      [] code = "CURLE_SEND_FAIL_REWIND" -> "Send failed since rewinding of the data stream failed"
      [] code = "CURLE_SSL_ENGINE_INITFAILED" -> "Failed to initialise SSL crypto engine"
      [] code = "CURLE_LOGIN_DENIED" -> "Login denied"
      [] code = "CURLE_TFTP_NOTFOUND" -> "TFTP: File Not Found"
      [] code = "CURLE_TFTP_PERM" -> "TFTP: Access Violation"
      [] code = "CURLE_REMOTE_DISK_FULL" -> "Disk full or allocation exceeded"
      [] code = "CURLE_TFTP_ILLEGAL" -> "TFTP: Illegal operation"
      [] code = "CURLE_TFTP_UNKNOWNID" -> "TFTP: Unknown transfer ID"
      [] code = "CURLE_REMOTE_FILE_EXISTS" -> "Remote file already exists"
      [] code = "CURLE_TFTP_NOSUCHUSER" -> "TFTP: No such user"
      [] code = "CURLE_SSL_CACERT_BADFILE" -> "Problem with the SSL CA cert (path? access rights?)"
      [] code = "CURLE_REMOTE_FILE_NOT_FOUND" -> "Remote file not found"
      [] code = "CURLE_SSH" -> "Error in the SSH layer"
      [] code = "CURLE_SSL_SHUTDOWN_FAILED" -> "Failed to shut down the SSL connection"
      [] code = "CURLE_AGAIN" -> "Socket not ready for send/recv"
      [] code = "CURLE_SSL_CRL_BADFILE" -> "Failed to load CRL file (path? access rights?, format?)"
      [] code = "CURLE_SSL_ISSUER_ERROR" -> "Issuer check against peer certificate failed"
      [] code = "CURLE_FTP_PRET_FAILED" -> "FTP: The server did not accept the PRET command."
      [] code = "CURLE_RTSP_CSEQ_ERROR" -> "RTSP CSeq mismatch or invalid CSeq"
      [] code = "CURLE_RTSP_SESSION_ERROR" -> "RTSP session error"
      [] code = "CURLE_FTP_BAD_FILE_LIST" -> "Unable to parse FTP file list"
      [] code = "CURLE_CHUNK_FAILED" -> "Chunk callback failed"
      [] code = "CURLE_NO_CONNECTION_AVAILABLE" -> "The max connection limit is reached"
      [] code = "CURLE_SSL_PINNEDPUBKEYNOTMATCH" ->
            "SSL public key does not match pinned public key"
      [] code = "CURLE_SSL_INVALIDCERTSTATUS" -> "SSL server certificate status verification FAILED"
      [] code = "CURLE_HTTP2_STREAM" -> "Stream error in the HTTP/2 framing layer"
      [] code = "CURLE_RECURSIVE_API_CALL" -> "API function called from within callback"
      [] code = "CURLE_AUTH_ERROR" -> "An authentication function returned an error"
      [] code = "CURLE_HTTP3" -> "HTTP/3 error"
      [] code = "CURLE_QUIC_CONNECT_ERROR" -> "QUIC connection error"
      [] code = "CURLE_PROXY" -> "proxy handshake error"
      [] code = "CURLE_SSL_CLIENTCERT" -> "SSL Client Certificate required"
      [] code = "CURLE_UNRECOVERABLE_POLL" -> "Unrecoverable error in select/poll"
      [] code = "CURLE_TOO_LARGE" ->
            IF libcurl = "7.88.1" THEN "Unknown error"
            ELSE "A value or data field grew larger than allowed"
      [] code = "CURLE_ECH_REQUIRED" ->
            IF libcurl = "7.88.1" THEN "Unknown error"
            ELSE "ECH attempted but failed"
      [] OTHER -> "Unknown error"

\* a handle as curl_easy_init leaves it: nothing followed, no timeout, no
\* callback; redirects unlimited (-1) before libcurl 8.3.0, 30 since
DefaultOpts ==
    [followlocation |-> 0,
     maxredirs |-> IF libcurl = "7.88.1" THEN -1 ELSE 30,
     timeout_ms |-> 0,
     writefunction |-> "default", writedata |-> "stdout"]

\* ----------------------------------------------------------- the values
NoRet == [kind |-> "none", size |-> 0, content |-> <<>>, what |-> ""]
SizeRet(n) == [kind |-> "size", size |-> n, content |-> <<>>, what |-> ""]
ErrRet(msg) == [kind |-> "err", size |-> 0, content |-> <<>>, what |-> msg]
\* builder.convert(): the padded string holding the builder's bytes
convert(b) == [kind |-> "ok", size |-> Len(b), content |-> b, what |-> ""]

\* ------------------------------------------------------------ callbacks
\* padded_string_builder::append(ptr, total): copies total bytes, or fails
\* to grow (canGrow = FALSE) and leaves the builder as it was; appending
\* nothing needs no growth
append(b, ptr, total, canGrow) ==
    IF canGrow \/ total = 0 THEN [ok |-> TRUE, bldr |-> b \o SubSeq(ptr, 1, total)]
    ELSE [ok |-> FALSE, bldr |-> b]

\* count_callback with "*count = len" for "*count += len"
count_callback_assign(ptr, size, nmemb, count) ==
    LET len == size * nmemb
    IN  [wrote |-> len, count |-> len]

\* count_callback with "len = size" for "len = size * nmemb"
count_callback_size_only(ptr, size, nmemb, count) ==
    LET len == size
    IN  [wrote |-> len, count |-> count + len]

count_callback(ptr, size, nmemb, count) ==
    LET len == size * nmemb
    IN  [wrote |-> len, count |-> count + len]

\* builder_callback putting each new chunk in front of what it holds
builder_callback_prepend(ptr, size, nmemb, bldr, canGrow) ==
    LET total == size * nmemb
        r == append(<<>>, ptr, total, canGrow)
    IN  [wrote |-> IF r.ok THEN total ELSE 0,
         bldr |-> IF r.ok THEN r.bldr \o bldr ELSE bldr, ok |-> r.ok]

\* builder_callback with "return total" for "return ok ? total : 0"
builder_callback_ignore_failure(ptr, size, nmemb, bldr, canGrow) ==
    LET total == size * nmemb
        r == append(bldr, ptr, total, canGrow)
    IN  [wrote |-> total, bldr |-> r.bldr, ok |-> r.ok]

builder_callback(ptr, size, nmemb, bldr, canGrow) ==
    LET total == size * nmemb
        r == append(bldr, ptr, total, canGrow)
    IN  [wrote |-> IF r.ok THEN total ELSE 0, bldr |-> r.bldr, ok |-> r.ok]

\* ----------------------------------------------------------------- Init
Init ==
    /\ libcurl \in Versions
    /\ pc = "idle"
    /\ fn = "none"
    /\ curl = "none"
    /\ opts = DefaultOpts
    /\ total_bytes = 0
    /\ builder = <<>>
    /\ res = "NONE"
    /\ ret = NoRet
    /\ hops = 0
    /\ elapsed = 0
    /\ phase = "connect"
    /\ seen = 0
    /\ delivered = <<>>
    /\ appendFailed = FALSE
    /\ aborted = FALSE
    /\ performs = 0
    /\ cleanups = 0
    /\ prev = "none"

\* -------------------------------------------------------- program steps
\* simdjson::padded_string_builder builder; a local, constructed empty by
\* every call (get_actual_payload_size has none: it stays empty there)
\* a builder that outlives the call (a static or a member)
StaleBuilder == builder

FreshBuilder == <<>>

\* the caller invokes get_actual_payload_size(url) or load_url(url)
Call(f) ==
    /\ pc = "idle"
    /\ pc' = "init"
    /\ fn' = f
    /\ curl' = "none"
    /\ opts' = DefaultOpts
    /\ total_bytes' = 0
    /\ builder' = FreshBuilder
    /\ res' = "NONE"
    /\ ret' = NoRet
    /\ hops' = 0
    /\ elapsed' = 0
    /\ phase' = "connect"
    /\ seen' = 0
    /\ delivered' = <<>>
    /\ appendFailed' = FALSE
    /\ aborted' = FALSE
    /\ performs' = 0
    /\ cleanups' = 0
    /\ prev' = IF curl = "cleaned" /\ res = "CURLE_OK" THEN fn ELSE "none"
    /\ UNCHANGED libcurl

\* what each function returns when curl_easy_init gives no handle
InitFailRet(f) ==
    IF f = "probe" THEN SizeRet(0) ELSE ErrRet("Failed to initialize curl")

\* CURL* curl = curl_easy_init(); if (!curl) return ...;  size_t total_bytes = 0;
EasyInit(ok) ==
    /\ pc = "init"
    /\ IF ok
       THEN /\ curl' = "live"
            /\ opts' = DefaultOpts
            /\ total_bytes' = IF fn = "probe" THEN 0 ELSE total_bytes
            /\ pc' = "setopt"
            /\ UNCHANGED ret
       ELSE /\ curl' = "null"
            /\ ret' = InitFailRet(fn)
            /\ pc' = "idle"
            /\ UNCHANGED <<opts, total_bytes>>
    /\ UNCHANGED <<fn, builder, res, hops, elapsed, phase, seen, delivered,
                   appendFailed, aborted, performs, cleanups, prev, libcurl>>

\* the curl_easy_setopt calls of get_actual_payload_size
ProbeSetOpts(o) ==
    [o EXCEPT !.followlocation = 1,
              !.writefunction = "count_callback",
              !.writedata = "total_bytes"]

\* load_url without its CURLOPT_MAXREDIRS line
LoadSetOpts_no_maxredirs(o) ==
    [o EXCEPT !.followlocation = 1,
              !.timeout_ms = TIMEOUT_MS,
              !.writefunction = "builder_callback",
              !.writedata = "builder"]

\* load_url without its CURLOPT_TIMEOUT_MS line
LoadSetOpts_no_timeout(o) ==
    [o EXCEPT !.followlocation = 1,
              !.maxredirs = MAXREDIRS,
              !.writefunction = "builder_callback",
              !.writedata = "builder"]

\* the curl_easy_setopt calls of load_url
LoadSetOpts(o) ==
    [o EXCEPT !.followlocation = 1,
              !.maxredirs = MAXREDIRS,
              !.timeout_ms = TIMEOUT_MS,
              !.writefunction = "builder_callback",
              !.writedata = "builder"]

\* the setopt block, then curl_easy_perform(curl) starts the transfer
SetOpts ==
    /\ pc = "setopt"
    /\ opts' = IF fn = "probe" THEN ProbeSetOpts(opts) ELSE LoadSetOpts(opts)
    /\ performs' = performs + 1
    /\ pc' = "perform"
    /\ UNCHANGED <<fn, curl, total_bytes, builder, res, ret, hops, elapsed,
                   phase, seen, delivered, appendFailed, aborted, cleanups, prev, libcurl>>

\* an early return on a failed transfer, before the cleanup
AfterPerform_early_return(code) ==
    IF code = "CURLE_OK" THEN "cleanup" ELSE "return"

\* curl_easy_perform has returned code; the next statement is the cleanup
AfterPerform(code) == "cleanup"

\* ------------------------------------------------------ transport steps
\* the connection to the host of the current URL is made
Connected ==
    /\ pc = "perform"
    /\ phase = "connect"
    /\ phase' = "head"
    /\ UNCHANGED <<pc, fn, curl, opts, total_bytes, builder, res, ret, hops,
                   elapsed, seen, delivered, appendFailed, aborted, performs, cleanups,
                   prev, libcurl>>

\* the connection attempt is never answered and is given up (by the system's
\* TCP retries or libcurl's default connect timeout), with or without
\* CURLOPT_TIMEOUT_MS on the handle
ConnectGiveUp ==
    /\ pc = "perform"
    /\ phase = "connect"
    /\ res' = "CURLE_OPERATION_TIMEDOUT"
    /\ pc' = AfterPerform("CURLE_OPERATION_TIMEDOUT")
    /\ UNCHANGED <<fn, curl, opts, total_bytes, builder, ret, hops, elapsed,
                   phase, seen, delivered, appendFailed, aborted, performs, cleanups,
                   prev, libcurl>>

\* a 3xx response arrives before any body of the final response; following
\* it starts with a connection to the new location
ServerRedirect ==
    /\ pc = "perform"
    /\ phase = "head"
    /\ delivered = <<>>
    /\ seen < MaxRedirChain
    /\ seen' = seen + 1
    /\ IF opts.followlocation = 1
       THEN IF opts.maxredirs # -1 /\ hops >= opts.maxredirs
            THEN /\ res' = "CURLE_TOO_MANY_REDIRECTS"
                 /\ pc' = AfterPerform("CURLE_TOO_MANY_REDIRECTS")
                 /\ UNCHANGED <<hops, phase>>
            ELSE /\ hops' = hops + 1
                 /\ phase' = "connect"
                 /\ UNCHANGED <<res, pc>>
       ELSE /\ phase' = "rbody"
            /\ UNCHANGED <<res, pc, hops>>
    /\ UNCHANGED <<fn, curl, opts, total_bytes, builder, ret, elapsed,
                   delivered, appendFailed, aborted, performs, cleanups, prev, libcurl>>

\* the transport hands one chunk to the registered write callback and aborts
\* with CURLE_WRITE_ERROR when the callback returns anything but size * nmemb
Deliver(shape, data, canGrow) ==
    /\ pc = "perform"
    /\ phase # "connect"
    /\ Len(delivered) < MaxChunks
    /\ Len(data) = shape[1] * shape[2]
    /\ delivered' = Append(delivered, data)
    /\ phase' = IF phase = "head" THEN "body" ELSE phase
    /\ LET size == shape[1]
           nmemb == shape[2]
           c == count_callback(data, size, nmemb, total_bytes)
           b == builder_callback(data, size, nmemb, builder, canGrow)
           wrote == IF opts.writefunction = "count_callback" THEN c.wrote ELSE b.wrote
       IN  /\ IF opts.writefunction = "count_callback"
              THEN /\ total_bytes' = c.count
                   /\ canGrow
                   /\ UNCHANGED <<builder, appendFailed>>
              ELSE /\ builder' = b.bldr
                   /\ appendFailed' = (appendFailed \/ ~b.ok)
                   /\ UNCHANGED total_bytes
           /\ aborted' = (wrote # size * nmemb)
           /\ IF wrote # size * nmemb
              THEN /\ res' = "CURLE_WRITE_ERROR"
                   /\ pc' = AfterPerform("CURLE_WRITE_ERROR")
              ELSE UNCHANGED <<res, pc>>
    /\ UNCHANGED <<fn, curl, opts, ret, hops, elapsed, seen, performs,
                   cleanups, prev, libcurl>>

\* time passes during the transfer; a handle with CURLOPT_TIMEOUT_MS set is
\* aborted once that time is used up; on one without, no deadline of the
\* program's ends the transfer (the library's own failures, NetFail, can)
TimePasses ==
    /\ pc = "perform"
    /\ elapsed' = IF elapsed + TickMs > MaxTicks * TickMs THEN elapsed
                  ELSE elapsed + TickMs
    /\ IF opts.timeout_ms > 0 /\ elapsed' >= opts.timeout_ms
       THEN /\ res' = "CURLE_OPERATION_TIMEDOUT"
            /\ pc' = AfterPerform("CURLE_OPERATION_TIMEDOUT")
       ELSE UNCHANGED <<res, pc>>
    /\ UNCHANGED <<fn, curl, opts, total_bytes, builder, ret, hops, phase,
                   seen, delivered, appendFailed, aborted, performs, cleanups, prev, libcurl>>

\* the transfer fails with one of the release's codes, before or after chunks
\* were handed over, whatever the callback returned and whether or not a
\* time limit is set
NetFail(code) ==
    /\ pc = "perform"
    /\ code \in Named
    /\ code \in PreBodyErrors => phase \in {"connect", "head"}
    /\ res' = code
    /\ pc' = AfterPerform(code)
    /\ UNCHANGED <<fn, curl, opts, total_bytes, builder, ret, hops, elapsed,
                   phase, seen, delivered, appendFailed, aborted, performs, cleanups,
                   prev, libcurl>>

\* the response in progress ends: the transfer is complete
Complete ==
    /\ pc = "perform"
    /\ phase # "connect"
    /\ res' = "CURLE_OK"
    /\ pc' = AfterPerform("CURLE_OK")
    /\ phase' = IF phase = "head" THEN "body" ELSE phase
    /\ UNCHANGED <<fn, curl, opts, total_bytes, builder, ret, hops, elapsed,
                   seen, delivered, appendFailed, aborted, performs, cleanups, prev, libcurl>>

\* --------------------------------------------------- program steps, end
\* curl_easy_cleanup(curl);
Cleanup ==
    /\ pc = "cleanup"
    /\ curl' = "cleaned"
    /\ cleanups' = cleanups + 1
    /\ pc' = "return"
    /\ UNCHANGED <<fn, opts, total_bytes, builder, res, ret, hops, elapsed,
                   phase, seen, delivered, appendFailed, aborted, performs, prev, libcurl>>

\* get_actual_payload_size returning its counter whatever res is
ProbeReturn_partial(r, count) == SizeRet(count)

\* return (res == CURLE_OK) ? total_bytes : 0;
ProbeReturn(r, count) == SizeRet(IF r = "CURLE_OK" THEN count ELSE 0)

\* load_url converting its builder whatever res is
LoadReturn_partial(r, bldr) == convert(bldr)

\* if (res != CURLE_OK) return unexpected(strerror(res)); return builder.convert();
LoadReturn(r, bldr) ==
    IF r # "CURLE_OK" THEN ErrRet(curl_easy_strerror(r)) ELSE convert(bldr)

Return ==
    /\ pc = "return"
    /\ ret' = IF fn = "probe" THEN ProbeReturn(res, total_bytes)
              ELSE LoadReturn(res, builder)
    /\ pc' = "idle"
    /\ UNCHANGED <<fn, curl, opts, total_bytes, builder, res, hops, elapsed,
                   phase, seen, delivered, appendFailed, aborted, performs, cleanups,
                   prev, libcurl>>

\* --------------------------------------------------------------- Next
Next ==
    \/ \E f \in {"probe", "load"} : Call(f)
    \/ \E ok \in BOOLEAN : EasyInit(ok)
    \/ SetOpts
    \/ Connected
    \/ ConnectGiveUp
    \/ ServerRedirect
    \/ \E shape \in Shapes : \E data \in SeqsOfLen(shape[1] * shape[2]) :
          \E canGrow \in BOOLEAN : Deliver(shape, data, canGrow)
    \/ TimePasses
    \/ \E code \in NetErrors : NetFail(code)
    \/ Complete
    \/ Cleanup
    \/ Return

Spec == Init /\ [][Next]_vars

\* the program's own steps always go on, time always passes and a
\* connection attempt that stays unanswered is given up; the server is under
\* no obligation to send anything
FairSpec ==
    /\ Spec
    /\ WF_vars(\E ok \in BOOLEAN : EasyInit(ok))
    /\ WF_vars(SetOpts)
    /\ WF_vars(TimePasses)
    /\ WF_vars(ConnectGiveUp)
    /\ WF_vars(Cleanup)
    /\ WF_vars(Return)

\* a call has returned (through Return or through the failed init)
Returned == pc = "idle" /\ fn # "none"
ProbeReturned == Returned /\ fn = "probe"
LoadReturned == Returned /\ fn = "load"

\* ===================================================================== C1
\* C1: when the transfer of a load_url call completes with CURLE_OK, the
\* returned padded string holds exactly the chunks the transport handed to
\* the write callback, concatenated in delivery order, whatever their number
\* and sizes.
C1_ContentIsConcatenation ==
    (LoadReturned /\ res = "CURLE_OK") =>
        /\ ret.kind = "ok"
        /\ ret.content = Flatten(delivered)
        /\ ret.size = Len(Flatten(delivered))

\* a successful load of two different non-empty chunks, the second one
\* delivered as size 2, nmemb 1
C1_Witness ==
    /\ LoadReturned /\ res = "CURLE_OK" /\ ret.kind = "ok"
    /\ delivered = << <<1>>, <<2, 1>> >>
    /\ ret.content = <<1, 2, 1>>

\* ===================================================================== C2
\* C2: in get_actual_payload_size the counter is 0 when the transfer starts,
\* equals the sum of size * nmemb over the chunks delivered so far after
\* every callback, never decreases during the call and grows with every
\* chunk, and is the value returned when the transfer succeeds.
C2_CounterIsSum ==
    /\ (fn = "probe" /\ curl \in {"live", "cleaned"}) =>
           total_bytes = TotalLen(delivered)
    /\ (ProbeReturned /\ res = "CURLE_OK") => ret = SizeRet(TotalLen(delivered))

C2_CounterOnlyGrows ==
    [][(fn = "probe" /\ pc = "perform") =>
          /\ total_bytes' >= total_bytes
          /\ delivered' # delivered => total_bytes' > total_bytes]_vars

C2_PayloadSize == []C2_CounterIsSum /\ C2_CounterOnlyGrows

\* a successful probe that counted a 1-byte and a 2-byte chunk
C2_Witness ==
    /\ ProbeReturned /\ res = "CURLE_OK"
    /\ Len(delivered) = 2 /\ Len(delivered[1]) = 1 /\ Len(delivered[2]) = 2
    /\ ret.size = 3

\* ===================================================================== C3
\* C3: get_actual_payload_size returns 0 whenever curl_easy_init gives no
\* handle and whenever the transfer ends with a code other than CURLE_OK,
\* also when chunks had been counted before the failure.
C3_ZeroOnFailure ==
    (ProbeReturned /\ (curl = "null" \/ res # "CURLE_OK")) => ret = SizeRet(0)

\* a probe whose transfer failed after bytes had been counted
C3_Witness ==
    /\ ProbeReturned /\ curl = "cleaned" /\ res = "CURLE_RECV_ERROR"
    /\ total_bytes > 0 /\ ret.size = 0

\* ===================================================================== C4
\* C4: when curl_easy_init gives no handle or the transfer ends with a code
\* other than CURLE_OK, whichever of the library's codes it is, load_url
\* returns the error variant, never a buffer; for a transfer failure the
\* message is the release's text for that code, which is neither the text of
\* success nor that of a code the release does not know.
C4_ErrorOnFailure ==
    /\ (LoadReturned /\ (curl = "null" \/ res # "CURLE_OK")) =>
          /\ ret.kind = "err"
          /\ ret.content = <<>>
          /\ curl = "null" => ret.what = "Failed to initialize curl"
          /\ curl # "null" =>
                /\ res \in Named
                /\ ret.what = curl_easy_strerror(res)
                /\ ret.what \notin {"No error", "Unknown error", ""}
                /\ res = "CURLE_OPERATION_TIMEDOUT" => ret.what = "Timeout was reached"
                /\ (res = "CURLE_COULDNT_RESOLVE_HOST" /\ libcurl = "7.88.1") =>
                      ret.what = "Couldn't resolve host name"
                /\ (res = "CURLE_COULDNT_RESOLVE_HOST" /\ libcurl = "8.19.0") =>
                      ret.what = "Could not resolve hostname"
                /\ res = "CURLE_PARTIAL_FILE" => ret.what = "Transferred a partial file"
    /\ (LoadReturned /\ ret.kind = "ok") => (curl = "cleaned" /\ res = "CURLE_OK")

\* a load that failed on a broken encoding with bytes already in its builder
C4_Witness ==
    /\ LoadReturned /\ res = "CURLE_BAD_CONTENT_ENCODING" /\ builder # <<>>
    /\ ret = ErrRet("Unrecognized or bad HTTP Content or Transfer-Encoding")

\* ===================================================================== C5
\* C5: whenever builder.append fails on a chunk during load_url, the
\* callback returns a count other than the chunk's size * nmemb, the
\* transport aborts at once with the write error, no further chunk is
\* delivered, and load_url returns an error, never the partial buffer.
\* (A chunk of length 0 is never handed to the callback, and an append of
\* nothing cannot fail to grow: every failing append is on a chunk of one or
\* more bytes.)
C5_AppendFailureAborts ==
    /\ (fn = "load" /\ pc = "perform") =>
          \A shape \in Shapes : \A data \in SeqsOfLen(shape[1] * shape[2]) :
             LET r == builder_callback(data, shape[1], shape[2], builder, FALSE)
             IN  ~r.ok /\ r.wrote # shape[1] * shape[2] /\ r.bldr = builder
    /\ aborted <=> appendFailed
    /\ appendFailed =>
          /\ fn = "load"
          /\ pc # "perform"
          /\ res = "CURLE_WRITE_ERROR"
          /\ delivered # <<>>
          /\ builder = Flatten(SubSeq(delivered, 1, Len(delivered) - 1))
    /\ (LoadReturned /\ appendFailed) =>
          ret = ErrRet("Failed writing received data to disk/application")

\* a load whose second chunk could not be appended: the first chunk is in
\* the builder and an error is returned
C5_Witness ==
    /\ LoadReturned /\ appendFailed /\ Len(delivered) = 2
    /\ builder = <<1, 2>> /\ ret.kind = "err"

\* ===================================================================== C6
\* C6: a call that got a handle from curl_easy_init cleans it up exactly
\* once before it returns, on success and on failure, and only after
\* curl_easy_perform has returned; a call whose curl_easy_init failed holds
\* no handle.
C6_HandleReleasedOnce ==
    /\ cleanups <= 1
    /\ pc = "perform" => (curl = "live" /\ cleanups = 0)
    /\ curl = "cleaned" => (cleanups = 1 /\ res # "NONE" /\ performs = 1)
    /\ Returned =>
          \/ curl = "null" /\ cleanups = 0
          \/ curl = "cleaned" /\ cleanups = 1

\* a load whose transfer was aborted by the callback, handle cleaned up
C6_Witness ==
    /\ LoadReturned /\ aborted /\ res = "CURLE_WRITE_ERROR"
    /\ curl = "cleaned" /\ cleanups = 1

\* ===================================================================== C7
\* C7: a load_url call that meets more than 10 redirect responses fails with
\* the redirect-limit error; one that meets 10 or fewer is never failed by
\* the limit: every one of them is followed, the final response can complete,
\* and a transfer that completes returns the body of the final response and
\* nothing of the 3xx responses.
C7_RedirectLimit ==
    /\ (fn = "load" /\ pc = "perform") =>
          /\ seen <= 10 /\ hops = seen
          /\ phase # "connect" => ENABLED Complete
    /\ LoadReturned /\ curl # "null" =>
          /\ seen > 10 =>
                /\ res = "CURLE_TOO_MANY_REDIRECTS"
                /\ ret = ErrRet("Number of redirects hit maximum amount")
          /\ seen <= 10 =>
                /\ res # "CURLE_TOO_MANY_REDIRECTS"
                /\ hops = seen
                /\ res = "CURLE_OK" =>
                      /\ ret.kind = "ok"
                      /\ phase = "body"
                      /\ ret.content = Flatten(delivered)

\* a load that followed exactly 10 redirects and returned the final body
C7_Witness ==
    /\ LoadReturned /\ seen = 10 /\ ret.kind = "ok"
    /\ ret.content = <<2, 1>>

\* ===================================================================== C8
\* C8: a load_url transfer that has run for 15000 ms is aborted and load_url
\* returns the timeout error, so every load_url call returns; the handle of
\* get_actual_payload_size has no timeout set, no deadline ever ends its
\* transfer, and once it is connected and the server sends nothing more, no
\* step that is bound to happen is left: it may wait for ever (a protocol
\* with a response timeout of its own may end it, HTTP has none).
TimedOutStep == TimePasses /\ pc' # "perform"

\* the steps FairSpec obliges to happen
FairStep ==
    \/ \E ok \in BOOLEAN : EasyInit(ok)
    \/ SetOpts
    \/ TimePasses
    \/ ConnectGiveUp
    \/ Cleanup
    \/ Return

C8_Deadline ==
    /\ (LoadReturned /\ elapsed >= 15000) =>
           /\ res = "CURLE_OPERATION_TIMEDOUT"
           /\ ret = ErrRet("Timeout was reached")
    /\ (fn = "load" /\ pc = "perform") =>
           (opts.timeout_ms = 15000 /\ elapsed < 15000)
    /\ (fn = "probe" /\ pc = "perform") =>
           /\ opts.timeout_ms = 0
           /\ ENABLED TimePasses
           /\ ~ENABLED TimedOutStep
    /\ (fn = "probe" /\ pc = "perform" /\ phase # "connect"
          /\ elapsed = MaxTicks * TickMs) => ~ENABLED <<FairStep>>_vars

C8_LoadReturns == (fn = "load" /\ pc # "idle") ~> LoadReturned

C8_Timeout == []C8_Deadline /\ C8_LoadReturns

\* a load whose transfer was cut off at the deadline with part of the body in
C8_Witness ==
    /\ LoadReturned /\ elapsed >= 15000 /\ delivered # <<>>
    /\ ret = ErrRet("Timeout was reached")

\* ===================================================================== C9
\* C9: every call makes one curl_easy_perform and yields one result, with no
\* second attempt after a failure, and starts its transfer from an empty
\* counter, an empty builder and a handle holding only its own options, so
\* what a call accumulates is bounded by what was delivered in that call.
OwnOpts == IF fn = "probe" THEN ProbeSetOpts(DefaultOpts) ELSE LoadSetOpts(DefaultOpts)

C9_OneAttemptOwnState ==
    /\ performs <= 1
    /\ pc \in {"perform", "cleanup", "return"} => performs = 1
    /\ Returned => /\ performs = (IF curl = "null" THEN 0 ELSE 1)
                   /\ ret.kind \in {"size", "ok", "err"}
    /\ pc = "perform" => opts = OwnOpts
    /\ (pc = "perform" /\ delivered = <<>>) => (total_bytes = 0 /\ builder = <<>>)
    /\ pc # "idle" => ret.kind \in {"none"}
    /\ total_bytes <= TotalLen(delivered)
    /\ Len(builder) <= TotalLen(delivered)
    /\ (Returned /\ ret.kind \in {"size", "ok"}) => ret.size <= TotalLen(delivered)

\* the second of two consecutive successful loads
C9_Witness ==
    /\ LoadReturned /\ prev = "load"
    /\ ret.kind = "ok" /\ ret.content = <<2>>

\* ==================================================================== C10
\* C10: for one and the same sequence of delivered chunks, a successful
\* get_actual_payload_size and a successful load_url without append failure
\* return the same number: each returns the sum of the chunk lengths; and
\* count_callback returns size * nmemb for every chunk, so no return value
\* of the probe's callback ever ends the transfer (a write error of the
\* library's own making can).
C10_ProbeAgreesWithLoad ==
    /\ (ProbeReturned /\ res = "CURLE_OK") => ret.size = TotalLen(delivered)
    /\ (LoadReturned /\ res = "CURLE_OK" /\ ~appendFailed) =>
           /\ ret.size = TotalLen(delivered)
           /\ Len(ret.content) = ret.size
    /\ fn = "probe" => (~aborted /\ ~appendFailed)
    /\ (fn = "probe" /\ pc = "perform") =>
           \A shape \in Shapes : \A data \in SeqsOfLen(shape[1] * shape[2]) :
              count_callback(data, shape[1], shape[2], total_bytes).wrote
                  = shape[1] * shape[2]
    /\ (fn = "probe" /\ pc = "perform") => opts.writefunction = "count_callback"

\* test.cpp: a successful probe, then a load returning 3 bytes in 2 chunks
C10_Witness ==
    /\ LoadReturned /\ res = "CURLE_OK" /\ ~appendFailed
    /\ prev = "probe"
    /\ Len(delivered) = 2 /\ ret.size = 3
====
